---------------------------- MODULE Spec2Model ----------------------------
(***************************************************************************)
(* A model of the multi-agent customer-support pipeline:                   *)
(*   main.py               the orchestration graph and run_customer_...    *)
(*   agents/router.py      the keyword classifier and the router node      *)
(*   agents/specialized.py the three specialists and their sessions        *)
(*   agents/supervisor.py  the quality supervisor                          *)
(*   utils/user_identifier.py, utils/data_loader.py  identity resolution   *)
(*                                                                         *)
(* Texts are TLA+ strings; the string functions of the program (lower,     *)
(* "in", split, the regular expressions) are computed character by         *)
(* character with SubSeq and \o.                                           *)
(***************************************************************************)
EXTENDS Integers, Sequences, FiniteSets, TLC

VARIABLES
    \* ---- one turn of run_customer_support_system (main.py)
    pc,          \* the node the graph runs next; "idle" between turns
    state,       \* AgentState: messages, next_agent, query_type, final_response
    visited,     \* the nodes that have run in this turn, in order
    writes,      \* per AgentState field, the nodes that assigned it in this turn
    outcome,     \* what the specialist's generate_response did in this turn
    prompt,      \* the generation request handed to the backend in this turn
    raised,      \* the node whose exception left app.invoke in this turn, "" if none
    result,      \* what run_customer_support_system returned for this turn
    error_logs,  \* number of logger.error calls of main.py in this turn
    turns,       \* turns started so far
    \* ---- the three module-level specialist instances (specialized.py 218-220)
    current_customer,
    identification_attempts,
    memory,
    resolutions, \* history, per instance: each identification of a customer
                 \* from a text by identify_user_from_query, in order
    \* ---- RouterAgent.classify_query applied to one input
    rText,       \* the message
    rOut,        \* its classification, NotYet before classify_query ran
    \* UserIdentifier.extract_user_info_from_query as a function:
    uQuery,      \* the text
    uResult,     \* <<the customer it returns>>, <<>> before it ran
    \* ---- UserIdentifier._find_customer_by_name applied to one name
    nName,       \* the name
    nResult,     \* <<the customer it returns>>, <<>> before it ran
    \* ---- SupervisorAgent.evaluate_response and improve_response applied to
    \* one input
    sIn,         \* the arguments: query, response, query_type, issues, and
                 \* whether a statement of improve_response's try block raises
    sEval,       \* <<the evaluation>>, <<>> before evaluate_response ran
    sImproved,   \* <<the improved response>>, <<>> before improve_response ran
    \* ---- CustomerDataLoader.load_data applied to one backing store
    dStore,      \* the data file as load_data finds it
    dLoaded      \* <<the directory after load_data>>, <<>> before it ran

engineVars  == <<pc, state, visited, writes, outcome, prompt, raised, result, error_logs, turns>>
sessionVars == <<current_customer, identification_attempts, memory, resolutions>>
routerVars  == <<rText, rOut>>
resolverVars == <<uQuery, uResult>>
nameVars    == <<nName, nResult>>
supervisorVars == <<sIn, sEval, sImproved>>
loaderVars  == <<dStore, dLoaded>>
functionVars == <<routerVars, resolverVars, nameVars, supervisorVars, loaderVars>>
vars        == <<engineVars, sessionVars, functionVars>>

-----------------------------------------------------------------------------
(* Bounds of the model *)

\* turns one behaviour runs through the graph
MaxTurns == 3
\* fragments concatenated into one classifier input
MaxFrags == 3
\* pieces put together into one text to identify a customer from
MaxParts == 3
\* words of a query given to evaluate_response
MaxWords == 4
\* entries of a list of issues given to improve_response
MaxIssues == 3
\* records in the customers entry of a data file
MaxRecords == 2

-----------------------------------------------------------------------------
(* Strings *)

UpperAlpha == "ABCDEFGHIJKLMNOPQRSTUVWXYZ"
LowerAlpha == "abcdefghijklmnopqrstuvwxyz"
Digits     == "0123456789"

CharAt(s, i) == SubSeq(s, i, i)

\* the characters of a string, as a set
CharsOf(set) == {CharAt(set, i) : i \in 1..Len(set)}

UpperChars == CharsOf(UpperAlpha)
LowerChars == CharsOf(LowerAlpha)
DigitChars == CharsOf(Digits)

IsUpper(c)  == c \in UpperChars
IsLowerC(c) == c \in LowerChars
IsAlpha(c)  == IsUpper(c) \/ IsLowerC(c)
IsDigit(c)  == c \in DigitChars
\* str.split() and the regular expressions' \s (ASCII)
SpaceChars == {" ", "\t", "\n", "\r", "\f"}
IsSpace(c) == c \in SpaceChars

ToLower == [c \in UpperChars |->
               CharAt(LowerAlpha, CHOOSE i \in 1..26 : CharAt(UpperAlpha, i) = c)]
ToUpper == [c \in LowerChars |->
               CharAt(UpperAlpha, CHOOSE i \in 1..26 : CharAt(LowerAlpha, i) = c)]

LowerChar(c) == IF IsUpper(c) THEN ToLower[c] ELSE c
UpperChar(c) == IF IsLowerC(c) THEN ToUpper[c] ELSE c

\* str.lower(), character by character (the string is halved to keep the
\* evaluation shallow)
RECURSIVE Lower(_)
Lower(s) ==
    IF Len(s) = 0 THEN ""
    ELSE IF Len(s) = 1 THEN LowerChar(s)
    ELSE LET h == Len(s) \div 2
         IN  Lower(SubSeq(s, 1, h)) \o Lower(SubSeq(s, h + 1, Len(s)))

\* str.upper()
RECURSIVE Upper(_)
Upper(s) ==
    IF Len(s) = 0 THEN ""
    ELSE IF Len(s) = 1 THEN UpperChar(s)
    ELSE LET h == Len(s) \div 2
         IN  Upper(SubSeq(s, 1, h)) \o Upper(SubSeq(s, h + 1, Len(s)))

\* k occurs in s at position i
OccursAt(s, k, i) == i >= 1 /\ i + Len(k) - 1 <= Len(s) /\ SubSeq(s, i, i + Len(k) - 1) = k

\* the lower-case k occurs in s at index i under re.IGNORECASE
OccursAtIgnoreCase(s, k, i) ==
    i >= 1 /\ i + Len(k) - 1 <= Len(s) /\ Lower(SubSeq(s, i, i + Len(k) - 1)) = k

\* Python's  k in s
Contains(s, k) == \E i \in 1..(Len(s) - Len(k) + 1) : OccursAt(s, k, i)

\* any(k in s for k in ks), ks a sequence of strings
AnyIn(ks, s) == \E j \in 1..Len(ks) : Contains(s, ks[j])

\* the concatenation of a sequence of strings
RECURSIVE Concat(_)
Concat(fs) == IF Len(fs) = 0 THEN "" ELSE Head(fs) \o Concat(Tail(fs))

-----------------------------------------------------------------------------
(* agents/router.py *)

billing_keywords ==
    <<"billing", "payment", "charge", "invoice", "refund", "money", "cost", "price">>
technical_keywords ==
    <<"bug", "error", "technical", "feature", "system", "not working", "broken">>

\* RouterAgent.classify_query, with the first test on the technical keywords
classify_query_technical_first(message) ==
    LET message_lower == Lower(message) IN
    IF AnyIn(technical_keywords, message_lower) THEN "technical_agent"
    ELSE IF AnyIn(billing_keywords, message_lower) THEN "billing_agent"
    ELSE "general_agent"

\* RouterAgent.classify_query, with no fall-through to general_agent
classify_query_no_general(message) ==
    LET message_lower == Lower(message) IN
    IF AnyIn(billing_keywords, message_lower) THEN "billing_agent"
    ELSE "technical_agent"

\* RouterAgent.classify_query.  Nothing in the try block raises for a str
\* message, so the except branch (lines 38-40) is never taken.
classify_query(message) ==
    LET message_lower == Lower(message) IN
    IF AnyIn(billing_keywords, message_lower) THEN "billing_agent"
    ELSE IF AnyIn(technical_keywords, message_lower) THEN "technical_agent"
    ELSE "general_agent"

agent_to_type ==
    [a \in {"billing_agent", "technical_agent", "general_agent"} |->
        CASE a = "billing_agent"   -> "BILLING"
          [] a = "technical_agent" -> "TECHNICAL"
          [] a = "general_agent"   -> "GENERAL"]

Agents == DOMAIN agent_to_type


-----------------------------------------------------------------------------
(* More string functions, used by the identity resolver and the supervisor *)

AlphaChars == UpperChars \cup LowerChars
\* [A-Z0-9] under re.IGNORECASE, [A-Za-z0-9]
AlnumChars == AlphaChars \cup DigitChars

IsAlnum(c)    == c \in AlnumChars
\* the regular expressions' \w (ASCII)
IsWordChar(c) == IsAlnum(c) \/ c = "_"
NotSpace(c)   == ~IsSpace(c)

\* the last index of the longest run of characters of the set chars that
\* starts at index i of s (a greedy [...]* or [...]+); i - 1 when the run
\* is empty
RunEnd(s, i, chars) ==
    CHOOSE e \in (i - 1)..Len(s) :
        /\ \A j \in i..e : CharAt(s, j) \in chars
        /\ (e = Len(s) \/ CharAt(s, e + 1) \notin chars)

\* the last index of the token of s that starts at index i, a character
\* that is not white space
TokenEnd(s, i) ==
    CHOOSE e \in i..Len(s) :
        /\ \A j \in i..e : NotSpace(CharAt(s, j))
        /\ (e = Len(s) \/ IsSpace(CharAt(s, e + 1)))

\* str.split(): the whitespace-separated tokens of s from index i on
RECURSIVE SplitFrom(_, _)
SplitFrom(s, i) ==
    IF i > Len(s) THEN <<>>
    ELSE IF IsSpace(CharAt(s, i)) THEN SplitFrom(s, i + 1)
    ELSE LET e == TokenEnd(s, i)
         IN  <<SubSeq(s, i, e)>> \o SplitFrom(s, e + 1)

Split(s) == SplitFrom(s, 1)

\* str.strip()
Strip(s) ==
    IF \A j \in 1..Len(s) : IsSpace(CharAt(s, j)) THEN ""
    ELSE LET a == CHOOSE j \in 1..Len(s) :
                      NotSpace(CharAt(s, j)) /\ \A k \in 1..(j - 1) : IsSpace(CharAt(s, k))
             b == CHOOSE j \in 1..Len(s) :
                      NotSpace(CharAt(s, j)) /\ \A k \in (j + 1)..Len(s) : IsSpace(CharAt(s, k))
         IN  SubSeq(s, a, b)

\* str.title() on the characters lo..hi of s: a letter is upper-cased after
\* a non-letter and lower-cased after a letter
RECURSIVE TitleRange(_, _, _)
TitleRange(s, lo, hi) ==
    IF lo > hi THEN ""
    ELSE IF lo = hi
    THEN LET c == CharAt(s, lo)
         IN  IF lo > 1 /\ IsAlpha(CharAt(s, lo - 1)) THEN LowerChar(c) ELSE UpperChar(c)
    ELSE LET h == (lo + hi) \div 2
         IN  TitleRange(s, lo, h) \o TitleRange(s, h + 1, hi)

Title(s) == TitleRange(s, 1, Len(s))

\* the least element of a non-empty set of integers
Min(S) == CHOOSE x \in S : \A y \in S : x <= y
Max(S) == CHOOSE x \in S : \A y \in S : x >= y

-----------------------------------------------------------------------------
(* utils/data_loader.py: the customer directory *)

NoCustomer == [id |-> "", name |-> "", email |-> ""]

\* CustomerDataLoader._customers after load_data: the records of the data
\* file, in file order, with the attributes a customer is identified by.
\* data/customer_data.json is not among the sources; these records stand
\* for it, with the account ids, names and e-mail address that
\* test_identification.py expects to be identified.
customers ==
    << [id |-> "USER001234", name |-> "John Smith",   email |-> "john.smith@email.com"],
       [id |-> "USER005654", name |-> "Sarah Wilson", email |-> "sarah.wilson@techcorp.com"],
       [id |-> "USER002345", name |-> "John Doe",     email |-> "john.doe@example.com"] >>

\* "for customer in customers: if <match>: return customer": the first
\* record, in directory order, among those at the indices matching;
\* NoCustomer stands for None
FirstCustomer(matching) ==
    IF matching = {} THEN NoCustomer ELSE customers[Min(matching)]

\* CustomerDataLoader.get_customer_by_id
get_customer_by_id(customer_id) ==
    FirstCustomer({i \in 1..Len(customers) : customers[i].id = customer_id})

\* _initialize_fallback_data (lines 46-73): the one record, with the
\* attributes a customer is identified by, and the system status
fallback_customers ==
    << [id |-> "USER_FALLBACK", name |-> "Guest User", email |-> "guest@example.com"] >>

fallback_system_status ==
    [overall_status   |-> "operational",
     last_maintenance |-> "2024-07-01",
     known_issues     |-> <<>>,
     recent_updates   |-> <<>>]

fallback_data ==
    [customers |-> fallback_customers, system_status |-> fallback_system_status]

\* the {} that _data.get('system_status', {}) returns for a missing entry
no_system_status == [k \in {} |-> ""]

\* CustomerDataLoader.load_data on a backing store: the directory after the
\* call.  A missing file raises FileNotFoundError (line 34), content that
\* is not JSON raises JSONDecodeError (line 37); a file that cannot be read
\* and JSON that is not an object (its .get raises at line 29) reach the
\* last except branch (line 40), and so does a customers entry that is
\* null, whose len() raises at line 32.  Any other object is taken as it
\* is, with [] and {} for a missing entry (lines 29-30).
load_data(store) ==
    CASE store.kind = "missing"                 -> fallback_data
      [] store.kind = "unparsable"              -> fallback_data
      [] store.kind \in {"unreadable", "array"} -> fallback_data
      [] store.kind = "object" ->
            IF store.customers.entry = "null" THEN fallback_data
            ELSE [customers     |-> IF store.customers.entry = "absent"
                                    THEN <<>>
                                    ELSE store.customers.value,
                  system_status |-> IF store.system_status.entry = "absent"
                                    THEN no_system_status
                                    ELSE store.system_status.value]

-----------------------------------------------------------------------------
(* utils/user_identifier.py *)

\* r'USER\d{6}' under re.IGNORECASE matches at index i of query
UserIdAt(query, i) ==
    /\ i + 9 <= Len(query)
    /\ Lower(SubSeq(query, i, i + 3)) = "user"
    /\ \A j \in (i + 4)..(i + 9) : IsDigit(CharAt(query, j))

\* [:\s]
IdSepChars == {":"} \cup SpaceChars

\* r'<word>[:\s]+([A-Z0-9]+)' under re.IGNORECASE matches at index i
SepTokenAt(query, word, i) ==
    /\ OccursAtIgnoreCase(query, word, i)
    /\ LET s  == i + Len(word)
           se == RunEnd(query, s, IdSepChars)
       IN  se >= s /\ RunEnd(query, se + 1, AlnumChars) >= se + 1

\* group(1) of that match
SepTokenGroup(query, word, i) ==
    LET se == RunEnd(query, i + Len(word), IdSepChars)
    IN  SubSeq(query, se + 1, RunEnd(query, se + 1, AlnumChars))

\* r'my account is ([A-Z0-9]+)' under re.IGNORECASE matches at index i
MyAccountAt(query, i) ==
    /\ OccursAtIgnoreCase(query, "my account is ", i)
    /\ RunEnd(query, i + 14, AlnumChars) >= i + 14

\* the account id as the text writes it, not upper-cased
extract_account_id_as_written(query) ==
    LET n  == Len(query)
        p1 == {i \in 1..n : UserIdAt(query, i)}
        p3 == {i \in 1..n : SepTokenAt(query, "account", i)}
        p4 == {i \in 1..n : SepTokenAt(query, "id", i)}
        p5 == {i \in 1..n : MyAccountAt(query, i)}
    IN  IF p1 # {} THEN SubSeq(query, Min(p1), Min(p1) + 9)
        ELSE IF p3 # {} THEN SepTokenGroup(query, "account", Min(p3))
        ELSE IF p4 # {} THEN SepTokenGroup(query, "id", Min(p4))
        ELSE IF p5 # {}
             THEN SubSeq(query, Min(p5) + 14, RunEnd(query, Min(p5) + 14, AlnumChars))
        ELSE ""

\* UserIdentifier._extract_account_id: the patterns in order, the first that
\* matches anywhere decides; "" stands for None
extract_account_id(query) ==
    LET n  == Len(query)
        p1 == {i \in 1..n : UserIdAt(query, i)}
        p3 == {i \in 1..n : SepTokenAt(query, "account", i)}
        p4 == {i \in 1..n : SepTokenAt(query, "id", i)}
        p5 == {i \in 1..n : MyAccountAt(query, i)}
    IN  IF p1 # {} THEN Upper(SubSeq(query, Min(p1), Min(p1) + 9))
        ELSE IF p3 # {} THEN Upper(SepTokenGroup(query, "account", Min(p3)))
        ELSE IF p4 # {} THEN Upper(SepTokenGroup(query, "id", Min(p4)))
        ELSE IF p5 # {}
             THEN Upper(SubSeq(query, Min(p5) + 14, RunEnd(query, Min(p5) + 14, AlnumChars)))
        ELSE ""

\* [A-Za-z0-9._%+-], [A-Za-z0-9.-] and [A-Z|a-z] of the e-mail pattern
LocalChars  == AlnumChars \cup {".", "_", "%", "+", "-"}
DomainChars == AlnumChars \cup {".", "-"}
TldChars    == AlphaChars \cup {"|"}

\* the regular expressions' \b before index p of s (p in 1..Len(s)+1)
WordBoundary(s, p) ==
    LET w(k) == k >= 1 /\ k <= Len(s) /\ IsWordChar(CharAt(s, k))
    IN  w(p - 1) # w(p)

\* the ends of the matches of the e-mail pattern that start at index i, as
\* pairs <<end of the domain part, end of the match>>
EmailEnds(query, i) ==
    LET a == RunEnd(query, i, LocalChars) + 1
    IN  IF ~(WordBoundary(query, i) /\ a > i /\ a <= Len(query) /\ CharAt(query, a) = "@")
        THEN {}
        ELSE LET dmax == RunEnd(query, a + 1, DomainChars)
             IN  { de \in ((a + 1)..dmax) \X ((a + 1)..Len(query)) :
                     /\ de[1] + 1 <= Len(query)
                     /\ CharAt(query, de[1] + 1) = "."
                     /\ de[2] >= de[1] + 3
                     /\ de[2] <= RunEnd(query, de[1] + 2, TldChars)
                     /\ WordBoundary(query, de[2] + 1) }

\* UserIdentifier._extract_email: re.search takes the leftmost start, the
\* greedy quantifiers the longest domain part and then the longest ending;
\* "" stands for None
extract_email(query) ==
    LET starts == {i \in 1..Len(query) : EmailEnds(query, i) # {}}
    IN  IF starts = {} THEN ""
        ELSE LET i  == Min(starts)
                 d  == Max({de[1] : de \in EmailEnds(query, i)})
                 e  == Max({de[2] : de \in {x \in EmailEnds(query, i) : x[1] = d}})
             IN  SubSeq(query, i, e)

\* [A-Za-z\s]
NameChars == AlphaChars \cup SpaceChars

name_patterns == <<"my name is ", "i am ", "this is ", "i'm ">>
filler_words  == <<"calling", "having", "looking", "trying">>

\* r'<phrase>([A-Za-z\s]+)' under re.IGNORECASE matches at index i
NamePhraseAt(query, phrase, i) ==
    /\ OccursAtIgnoreCase(query, phrase, i)
    /\ RunEnd(query, i + Len(phrase), NameChars) >= i + Len(phrase)

\* match.group(1).strip() of the leftmost match of the phrase
NameCandidate(query, phrase) ==
    LET i == Min({j \in 1..Len(query) : NamePhraseAt(query, phrase, j)})
    IN  Strip(SubSeq(query, i + Len(phrase), RunEnd(query, i + Len(phrase), NameChars)))

\* the filter of line 88 on a candidate
NameAccepted(name) == Len(Split(name)) <= 3 /\ ~AnyIn(filler_words, Lower(name))

\* UserIdentifier._extract_name_patterns from pattern number k on: a
\* pattern whose candidate is filtered out falls through to the next
\* pattern; "" stands for None
RECURSIVE ExtractNameFrom(_, _)
ExtractNameFrom(query, k) ==
    IF k > Len(name_patterns) THEN ""
    ELSE LET phrase == name_patterns[k]
             found  == \E j \in 1..Len(query) : NamePhraseAt(query, phrase, j)
         IN  IF found /\ NameAccepted(NameCandidate(query, phrase))
             THEN Title(NameCandidate(query, phrase))
             ELSE ExtractNameFrom(query, k + 1)

extract_name_patterns(query) == ExtractNameFrom(query, 1)

\* the e-mail address compared as written, letter case included
find_customer_by_email_exact(email) ==
    FirstCustomer({i \in 1..Len(customers) : customers[i].email = email})

\* UserIdentifier._find_customer_by_email
find_customer_by_email(email) ==
    FirstCustomer({i \in 1..Len(customers) : Lower(customers[i].email) = Lower(email)})

\* UserIdentifier._find_customer_by_name: the first record, in directory
\* order, that matches exactly or shares a name token
find_customer_by_name(name) ==
    LET name_parts == Split(Lower(name))
        P(c) == \/ Lower(c.name) = Lower(name)
                \/ \E k \in 1..Len(name_parts) :
                       \E m \in 1..Len(Split(Lower(c.name))) :
                           Split(Lower(c.name))[m] = name_parts[k]
    IN  FirstCustomer({i \in 1..Len(customers) : P(customers[i])})

\* "if value: customer = find(value)": found is the record the finder
\* gives for the extracted value; NoCustomer when nothing was extracted
FindIf(value, found) == IF value # "" THEN found ELSE NoCustomer

\* "if customer: return customer", else the next strategy
FirstFound(customer, otherwise) == IF customer # NoCustomer THEN customer ELSE otherwise

\* the strategies in another order: e-mail, then account id, then name
extract_user_info_email_first(query) ==
    FirstFound(FindIf(extract_email(query), find_customer_by_email(extract_email(query))),
      FirstFound(FindIf(extract_account_id(query), get_customer_by_id(extract_account_id(query))),
                 FindIf(extract_name_patterns(query),
                        find_customer_by_name(extract_name_patterns(query)))))

\* UserIdentifier.extract_user_info_from_query: account id, then e-mail,
\* then name; NoCustomer stands for None
extract_user_info_from_query(query) ==
    FirstFound(FindIf(extract_account_id(query), get_customer_by_id(extract_account_id(query))),
      FirstFound(FindIf(extract_email(query), find_customer_by_email(extract_email(query))),
                 FindIf(extract_name_patterns(query),
                        find_customer_by_name(extract_name_patterns(query)))))

identification_keywords ==
    <<"my account", "my name", "i am", "this is", "my email",
      "account id", "user id", "my profile", "logged in as">>

\* UserIdentifier.is_identification_attempt
is_identification_attempt(query) == AnyIn(identification_keywords, Lower(query))

-----------------------------------------------------------------------------
(* agents/specialized.py: the specialists *)

\* request_user_identification's four messages (the bullet character U+2022
\* of the second request is written *, one character as well)
NotFoundMessage ==
    "I couldn't find your account with the information provided. Please provide your account ID (e.g., USER123456) or email address so I can assist you better."
FirstRequest ==
    "Hello! To provide you with personalized assistance, I'll need to identify your account first. Please provide your account ID (e.g., USER123456) or email address."
SecondRequest ==
    "I still need your account information to help you. You can provide:\n* Your account ID (format: USER123456)\n* Your email address\n* Or say something like 'My account is USER123456'"
ThirdRequest ==
    "I'm having trouble identifying your account. Please double-check and provide your account ID or email address, or contact our support team for assistance."

\* a request_user_identification that repeats the itemized list from the
\* second attempt on
identification_message_two_tiers(query, attempts) ==
    IF AnyIn(identification_keywords, Lower(query)) THEN NotFoundMessage
    ELSE IF attempts = 1 THEN FirstRequest
    ELSE SecondRequest

\* a request_user_identification that consults the ladder first and looks
\* at the text only from the third attempt on
identification_message_ladder_first(query, attempts) ==
    IF attempts = 1 THEN FirstRequest
    ELSE IF attempts = 2 THEN SecondRequest
    ELSE IF AnyIn(identification_keywords, Lower(query)) THEN NotFoundMessage
    ELSE ThirdRequest

\* BaseSpecializedAgent.request_user_identification: the message for a query
\* when identification_attempts has already been incremented to attempts
identification_message(query, attempts) ==
    IF is_identification_attempt(query) THEN NotFoundMessage
    ELSE IF attempts = 1 THEN FirstRequest
    ELSE IF attempts = 2 THEN SecondRequest
    ELSE ThirdRequest

\* the except branches of the three generate_response methods
fallback_response ==
    [a \in Agents |->
        CASE a = "billing_agent" ->
               "I can help you with billing matters. Please let me know your specific concern and I'll assist you accordingly."
          [] a = "technical_agent" ->
               "I'm here to help with technical issues. Please describe the problem and I'll do my best to assist you."
          [] a = "general_agent" ->
               "Thank you for contacting us! I'm here to help with any questions you may have."]

\* the reply of generate_response of specialist a when the backend raises,
\* with the exception left to the node function, which answers as for any
\* other error
llm_failure_response_unhandled(a) ==
    "I apologize, but I'm experiencing technical difficulties. Please try again later."

\* the reply of generate_response of specialist a when the backend raises
llm_failure_response(a) == fallback_response[a]

\* the except branches of the three node functions, and of main.py
Apology ==
    "I apologize, but I'm experiencing technical difficulties. Please try again later."

-----------------------------------------------------------------------------
(* agents/supervisor.py *)

TooBrief    == "Response too brief"
NotAddress  == "May not fully address query"
NeedEmpathy == "May need more empathetic tone"

\* sum(1 for keyword in keywords if keyword in response_lower), from index k
RECURSIVE CountAddressed(_, _, _)
CountAddressed(keywords, response_lower, k) ==
    IF k > Len(keywords) THEN 0
    ELSE (IF Contains(response_lower, keywords[k]) THEN 1 ELSE 0)
         + CountAddressed(keywords, response_lower, k + 1)

\* a response of 50 characters counted as brief
too_brief_at_50(response) == Len(response) <= 50

\* len(response) < 50 (lines 46-49)
too_brief(response) == Len(response) < 50

\* a coverage check that counts a query as not addressed when none of its
\* words is in the response
not_addressed_if_none(query, response) ==
    /\ Split(Lower(query)) # <<>>
    /\ CountAddressed(Split(Lower(query)), Lower(response), 1) = 0

\* addressed_keywords < len(query_keywords) * 0.3 (lines 51-56)
not_addressed(query, response) ==
    CountAddressed(Split(Lower(query)), Lower(response), 1) * 10
        < Len(Split(Lower(query))) * 3

\* a tone check that looks at the type only, not at the query
lacks_empathy_by_type(query, response, query_type) ==
    /\ ~Contains(Lower(response), "sorry")
    /\ ~Contains(Lower(response), "apologize")
    /\ ~Contains(Lower(response), "unfortunately")
    /\ query_type = "BILLING"

\* the tone check of lines 58-62
lacks_empathy(query, response, query_type) ==
    /\ ~Contains(Lower(response), "sorry")
    /\ ~Contains(Lower(response), "apologize")
    /\ ~Contains(Lower(response), "unfortunately")
    /\ \/ query_type = "BILLING"
       \/ Contains(Lower(query), "problem")
       \/ Contains(Lower(query), "issue")

\* a score that takes 25 for each issue
score_of_25(issues) ==
    IF Len(issues) * 25 > 100 THEN 0 ELSE 100 - Len(issues) * 25

\* max(0, 100 - len(issues) * 20) (line 65)
score_of(issues) ==
    IF Len(issues) * 20 > 100 THEN 0 ELSE 100 - Len(issues) * 20

\* the issues evaluate_response appends, in the order of its checks
issues_of(query, response, query_type) ==
    (IF too_brief(response) THEN <<TooBrief>> ELSE <<>>)
    \o (IF not_addressed(query, response) THEN <<NotAddress>> ELSE <<>>)
    \o (IF lacks_empathy(query, response, query_type) THEN <<NeedEmpathy>> ELSE <<>>)

\* the evaluation with these issues: needs_improvement is set with every
\* append
evaluation_of(issues) ==
    [needs_improvement |-> issues # <<>>,
     issues            |-> issues,
     score             |-> score_of(issues)]

\* SupervisorAgent.evaluate_response
evaluate_response(query, response, query_type) ==
    evaluation_of(issues_of(query, response, query_type))

\* issue in issues, issues a list
InList(issue, issues) == \E k \in 1..Len(issues) : issues[k] = issue

\* improve_response without its repairs: the reply goes out as it came
improve_response_unchanged(query, response, query_type, issues) == response

\* improve_response with its repairs in another order: tone before coverage
improve_response_tone_first(query, response, query_type, issues) ==
    LET r1 == IF InList(TooBrief, issues)
              THEN response \o "\n\nI'm here to provide additional assistance if you need more detailed information."
              ELSE response
        r2 == IF InList(NeedEmpathy, issues)
              THEN (IF query_type = "BILLING"
                    THEN "I understand billing concerns can be frustrating. "
                    ELSE IF query_type = "TECHNICAL"
                    THEN "I apologize for any technical difficulties you're experiencing. "
                    ELSE "I appreciate you reaching out to us. ") \o r1
              ELSE r1
        r3 == IF InList(NotAddress, issues)
              THEN "Thank you for your inquiry. " \o r2 \o "\n\nPlease let me know if this doesn't fully address your question or if you need clarification on any point."
              ELSE r2
    IN  r3

\* improve_response that repairs the first issue of the list only
improve_response_first_issue(query, response, query_type, issues) ==
    LET first == IF issues = <<>> THEN "" ELSE issues[1]
        r1 == IF first = TooBrief
              THEN response \o "\n\nI'm here to provide additional assistance if you need more detailed information."
              ELSE response
        r2 == IF first = NotAddress
              THEN "Thank you for your inquiry. " \o r1 \o "\n\nPlease let me know if this doesn't fully address your question or if you need clarification on any point."
              ELSE r1
        r3 == IF first = NeedEmpathy
              THEN (IF query_type = "BILLING"
                    THEN "I understand billing concerns can be frustrating. "
                    ELSE IF query_type = "TECHNICAL"
                    THEN "I apologize for any technical difficulties you're experiencing. "
                    ELSE "I appreciate you reaching out to us. ") \o r2
              ELSE r2
    IN  r3

\* improve_response that apologizes to every type of query
improve_response_apologizes(query, response, query_type, issues) ==
    LET r1 == IF InList(TooBrief, issues)
              THEN response \o "\n\nI'm here to provide additional assistance if you need more detailed information."
              ELSE response
        r2 == IF InList(NotAddress, issues)
              THEN "Thank you for your inquiry. " \o r1 \o "\n\nPlease let me know if this doesn't fully address your question or if you need clarification on any point."
              ELSE r1
        r3 == IF InList(NeedEmpathy, issues)
              THEN "I apologize for any technical difficulties you're experiencing. " \o r2
              ELSE r2
    IN  r3

\* SupervisorAgent.improve_response, its try block: on strings and a list
\* of issues it is string concatenation only and does not raise
improve_response(query, response, query_type, issues) ==
    LET r1 == IF InList(TooBrief, issues)
              THEN response \o "\n\nI'm here to provide additional assistance if you need more detailed information."
              ELSE response
        r2 == IF InList(NotAddress, issues)
              THEN "Thank you for your inquiry. " \o r1 \o "\n\nPlease let me know if this doesn't fully address your question or if you need clarification on any point."
              ELSE r1
        r3 == IF InList(NeedEmpathy, issues)
              THEN (IF query_type = "BILLING"
                    THEN "I understand billing concerns can be frustrating. "
                    ELSE IF query_type = "TECHNICAL"
                    THEN "I apologize for any technical difficulties you're experiencing. "
                    ELSE "I appreciate you reaching out to us. ") \o r2
              ELSE r2
    IN  r3

\* an except branch that returns nothing of the response
improve_response_except_empty(response) == ""

\* the except branch of improve_response (lines 92-94): the value returned
\* when a statement of the try block raised
improve_response_except(response) == response

-----------------------------------------------------------------------------
(* The inputs of the model *)

\* the user texts a turn is started with
UserTexts ==
    { "",
      "I need a refund",
      "billing system is not working",
      "My account is USER001234 and I have a billing issue",
      "The system is not working properly",
      "bug report from user005654",
      "I have a billing issue with my account",
      "My account is USER999999",
      "my email is SARAH.WILSON@TECHCORP.COM" }

\* the user texts of a conversation held mostly with the billing
\* specialist, in which two customers of the directory are named and each
\* specialist is told of a problem or an issue
SessionTexts ==
    { "I have a problem",
      "The system has a problem",
      "I need a refund",
      "I have a billing issue with my account",
      "My account is USER001234 and I have a billing issue",
      "my email is SARAH.WILSON@TECHCORP.COM, about my invoice" }

\* the user texts of a conversation in which each specialist is told of a
\* problem or an issue and one customer is named
ReviewTexts ==
    { "I have a problem",
      "The system has a problem",
      "I need a refund",
      "My account is USER001234 and I have a billing issue" }

\* every text a turn of the model is started with
TurnTexts == UserTexts \cup SessionTexts

\* the texts the generation backend returns when it does not fail
LLMReplies ==
    { "",
      "OK",
      "We are sorry for the trouble. Your refund for the billing issue is on its way to your account." }

-----------------------------------------------------------------------------
(* The functions above, evaluated once for the inputs of the model; any    *)
(* other argument is computed by the function itself.                      *)

\* what a specialist node can append as its reply
RawResponses ==
    LLMReplies \cup {NotFoundMessage, FirstRequest, SecondRequest, ThirdRequest, Apology}
               \cup {fallback_response[a] : a \in Agents}

QueryTypes == {agent_to_type[a] : a \in Agents}

\* f with its values computed once (@@ enumerates its arguments)
Tabulated(f) == f @@ <<>>

\* the lists of issues evaluate_response can return
IssueLists ==
    { b \o n \o e : b \in {<<>>, <<TooBrief>>},
                    n \in {<<>>, <<NotAddress>>},
                    e \in {<<>>, <<NeedEmpathy>>} }

ClassifiedTexts == Tabulated([t \in TurnTexts |-> classify_query(t)])
Classified(message) ==
    IF message \in TurnTexts THEN ClassifiedTexts[message]
    ELSE classify_query(message)

ResolvedTexts == Tabulated([t \in TurnTexts |-> extract_user_info_from_query(t)])
Resolved(query) ==
    IF query \in TurnTexts THEN ResolvedTexts[query]
    ELSE extract_user_info_from_query(query)

EvaluatedInputs == TurnTexts \X RawResponses \X QueryTypes
Evaluations ==
    Tabulated([x \in EvaluatedInputs |-> evaluate_response(x[1], x[2], x[3])])
Evaluated(query, response, query_type) ==
    IF <<query, response, query_type>> \in EvaluatedInputs
    THEN Evaluations[<<query, response, query_type>>]
    ELSE evaluate_response(query, response, query_type)

\* improve_response does not read the query
ImprovedInputs == RawResponses \X QueryTypes \X IssueLists
Improvements ==
    Tabulated([x \in ImprovedInputs |-> improve_response("", x[1], x[2], x[3])])
Improved(query, response, query_type, issues) ==
    IF <<response, query_type, issues>> \in ImprovedInputs
    THEN Improvements[<<response, query_type, issues>>]
    ELSE improve_response(query, response, query_type, issues)

-----------------------------------------------------------------------------
(* main.py: the graph and one turn *)

Human(text) == [role |-> "human", content |-> text]
AI(text)    == [role |-> "ai", content |-> text]

Last(seq) == seq[Len(seq)]

NoState  == [messages |-> <<>>, next_agent |-> "", query_type |-> "", final_response |-> ""]
NoWrites == [next_agent |-> <<>>, query_type |-> <<>>, final_response |-> <<>>]
NoPrompt == [agent |-> "", customer |-> "", query |-> ""]
NoResult == [returned |-> FALSE, value |-> ""]

\* the edges of create_multi_agent_system with the edges out of the
\* specialists leading to the output node
NextNodeSkippingSupervisor(node, st) ==
    CASE node = "input"      -> "router"
      [] node = "router"     -> st.next_agent
      [] node \in Agents     -> "output"
      [] node = "supervisor" -> "output"
      [] node = "output"     -> "END"

\* the edges of create_multi_agent_system with the billing and the technical
\* branch of the conditional edges exchanged
NextNodeSwapped(node, st) ==
    CASE node = "input"      -> "router"
      [] node = "router"     -> (CASE st.next_agent = "billing_agent"   -> "technical_agent"
                                   [] st.next_agent = "technical_agent" -> "billing_agent"
                                   [] OTHER                             -> st.next_agent)
      [] node \in Agents     -> "supervisor"
      [] node = "supervisor" -> "output"
      [] node = "output"     -> "END"

\* the edges of create_multi_agent_system: the node that runs after node;
\* the conditional edges after the router follow state["next_agent"]
NextNode(node, st) ==
    CASE node = "input"      -> "router"
      [] node = "router"     -> st.next_agent
      [] node \in Agents     -> "supervisor"
      [] node = "supervisor" -> "output"
      [] node = "output"     -> "END"

\* the first half of run_customer_support_system, called with one of
\* texts: the graph is built and invoked on the initial state
StartTurnWith(texts) ==
    /\ pc = "idle"
    /\ turns < MaxTurns
    /\ \E user_query \in texts :
           state' = [messages       |-> <<Human(user_query)>>,
                     next_agent     |-> "",
                     query_type     |-> "",
                     final_response |-> ""]
    /\ pc' = "input"
    /\ visited' = <<>>
    /\ writes' = NoWrites
    /\ outcome' = "none"
    /\ prompt' = NoPrompt
    /\ raised' = ""
    /\ result' = NoResult
    /\ error_logs' = 0
    /\ turns' = turns + 1
    /\ UNCHANGED <<sessionVars, functionVars>>

StartTurn == StartTurnWith(UserTexts)

input_node ==
    /\ pc = "input"
    /\ visited' = Append(visited, "input")
    /\ pc' = NextNode("input", state)
    /\ UNCHANGED <<state, writes, outcome, prompt, raised, result, error_logs, turns>>
    /\ UNCHANGED <<sessionVars, functionVars>>

router_agent ==
    /\ pc = "router"
    /\ IF state.messages # <<>>
       THEN LET latest_message == Last(state.messages).content
                next_agent     == Classified(latest_message)
            IN  /\ state' = [state EXCEPT !.next_agent = next_agent,
                                          !.query_type = agent_to_type[next_agent]]
                /\ writes' = [writes EXCEPT !.next_agent = Append(@, "router"),
                                            !.query_type = Append(@, "router")]
       ELSE UNCHANGED <<state, writes>>
    /\ visited' = Append(visited, "router")
    /\ pc' = NextNode("router", state')
    /\ UNCHANGED <<outcome, prompt, raised, result, error_logs, turns>>
    /\ UNCHANGED <<sessionVars, functionVars>>

\* identification that takes the first record of the directory when the
\* text resolves to none
identify_user_or_first(a, query) ==
    IF current_customer[a] # NoCustomer THEN current_customer[a]
    ELSE IF Resolved(query) # NoCustomer THEN Resolved(query)
    ELSE customers[1]

\* an identification that looks at the conversation log of the instance,
\* which a reset keeps
identify_user_from_log(a, query) ==
    IF current_customer[a] # NoCustomer THEN current_customer[a]
    ELSE IF Resolved(query) # NoCustomer /\ memory[a] # <<>> THEN customers[3]
    ELSE Resolved(query)

\* an identification that resolves every text and keeps the customer of
\* the session only when the text names none
identify_user_from_text_first(a, query) ==
    IF Resolved(query) # NoCustomer THEN Resolved(query)
    ELSE current_customer[a]

\* BaseSpecializedAgent.identify_user_from_query: the customer of the
\* session after the call (NoCustomer: the call returns False)
identify_user_from_query(a, query) ==
    IF current_customer[a] = NoCustomer
    THEN Resolved(query)
    ELSE current_customer[a]

\* the history of identifications of specialist a after a call in which
\* identify_user_from_query returned True with customer in the session:
\* one more when the session had no customer before the call (line 33)
identified(a, query, customer) ==
    IF current_customer[a] = NoCustomer
    THEN Append(resolutions[a], [query |-> query, customer |-> customer.id])
    ELSE resolutions[a]

\* one list of interactions shared by the three instances (a list that is
\* an attribute of the class)
add_to_memory_shared(a, query, response) ==
    [b \in Agents |->
        Append(memory[b], [query |-> query, response |-> response, timestamp |-> "now"])]

\* BaseSpecializedAgent.add_to_memory of the instance of specialist a: the
\* memories after the call
add_to_memory(a, query, response) ==
    [memory EXCEPT ![a] =
        Append(@, [query |-> query, response |-> response, timestamp |-> "now"])]

\* a node function that appends a reply only when it is not empty
append_reply_unless_empty(st, response) ==
    IF response = "" THEN st
    ELSE [st EXCEPT !.messages = Append(@, AI(response))]

\* state["messages"].append(AIMessage(content=response)) of the node
\* functions (lines 228 and 233 for billing_agent)
append_reply(st, response) ==
    [st EXCEPT !.messages = Append(@, AI(response))]

\* an except branch that forgets the customer of the session
customer_dropped_on_failure(a, customer) ==
    [current_customer EXCEPT ![a] = NoCustomer]

\* the customers of the sessions after the except branch of
\* generate_response (lines 121-124), which assigns nothing: the customer
\* of specialist a is the one identify_user_from_query left (line 34)
customer_after_failure(a, customer) ==
    [current_customer EXCEPT ![a] = customer]

\* a request_user_identification that counts only the requests of the
\* ladder, not the "could not find your account" replies
attempts_after_request_ladder_only(a, query) ==
    IF is_identification_attempt(query) THEN identification_attempts
    ELSE [identification_attempts EXCEPT ![a] = @ + 1]

\* line 50 of request_user_identification, its first statement:
\* self.identification_attempts += 1, whatever the query
attempts_after_request(a, query) ==
    [identification_attempts EXCEPT ![a] = @ + 1]

\* generate_response of the instance of specialist a, from the node function
\* of a: customer is the customer of the session after
\* identify_user_from_query
generate_response(a, query, customer) ==
    \/ \* generate_response raises: the except branch of the node
       /\ outcome' = "raised"
       /\ state' = append_reply(state, Apology)
       /\ UNCHANGED <<prompt, sessionVars>>
    \/ \* not identified: request_user_identification
       /\ customer = NoCustomer
       /\ outcome' = "identify"
       /\ identification_attempts' = attempts_after_request(a, query)
       /\ state' = append_reply(state,
              identification_message(query, identification_attempts'[a]))
       /\ UNCHANGED <<prompt, current_customer, memory, resolutions>>
    \/ \* identified, the backend returns a reply
       /\ customer # NoCustomer
       /\ \E response \in LLMReplies :
              /\ memory' = add_to_memory(a, query, response)
              /\ state' = append_reply(state, response)
       /\ outcome' = "generated"
       /\ current_customer' = [current_customer EXCEPT ![a] = customer]
       /\ resolutions' = [resolutions EXCEPT ![a] = identified(a, query, customer)]
       /\ prompt' = [agent |-> a, customer |-> customer.id, query |-> query]
       /\ UNCHANGED identification_attempts
    \/ \* identified, the backend fails: the fallback sentence
       /\ customer # NoCustomer
       /\ outcome' = "fallback"
       /\ current_customer' = customer_after_failure(a, customer)
       /\ resolutions' = [resolutions EXCEPT ![a] = identified(a, query, customer)]
       /\ prompt' = [agent |-> a, customer |-> customer.id, query |-> query]
       /\ state' = append_reply(state, llm_failure_response(a))
       /\ UNCHANGED <<identification_attempts, memory>>

\* the node function of specialist a (billing_agent, technical_agent,
\* general_agent): the reply to the latest message is appended
specialist_node(a) ==
    /\ pc = a
    /\ state.messages # <<>>
    /\ generate_response(a, Last(state.messages).content,
                         identify_user_from_query(a, Last(state.messages).content))
    /\ visited' = Append(visited, a)
    /\ pc' = NextNode(a, state')
    /\ UNCHANGED <<writes, raised, result, error_logs, turns, functionVars>>

billing_agent   == specialist_node("billing_agent")
technical_agent == specialist_node("technical_agent")
general_agent   == specialist_node("general_agent")

\* the improved text put in place of the first message instead of the last
set_improved_at_head(st, improved_response) ==
    [st EXCEPT !.messages[1] = AI(improved_response),
               !.final_response = improved_response]

\* lines 116-118 of supervisor_agent: the improved text replaces the last
\* message and is the final response
set_improved(st, improved_response) ==
    [st EXCEPT !.messages[Len(st.messages)] = AI(improved_response),
               !.final_response = improved_response]

\* a supervisor that approves every reply as it came
supervised_as_is(st, evaluation) ==
    [st EXCEPT !.final_response = Last(st.messages).content]

\* lines 109-121 of supervisor_agent: the state after the evaluation of
\* the specialist's reply
supervised(st, evaluation) ==
    IF evaluation.needs_improvement
    THEN set_improved(st, Improved(st.messages[1].content, Last(st.messages).content,
                                   st.query_type, evaluation.issues))
    ELSE [st EXCEPT !.final_response = Last(st.messages).content]

supervisor_agent ==
    /\ pc = "supervisor"
    /\ IF Len(state.messages) >= 2
       THEN /\ state' = supervised(state,
                        Evaluated(state.messages[1].content, Last(state.messages).content,
                                  state.query_type))
            /\ writes' = [writes EXCEPT !.final_response = Append(@, "supervisor")]
       ELSE UNCHANGED <<state, writes>>
    /\ visited' = Append(visited, "supervisor")
    /\ pc' = NextNode("supervisor", state')
    /\ UNCHANGED <<outcome, prompt, raised, result, error_logs, turns>>
    /\ UNCHANGED <<sessionVars, functionVars>>

\* an output node that sets the final response from the last message
output_node_sets_final ==
    /\ pc = "output"
    /\ state' = [state EXCEPT !.final_response = Last(state.messages).content]
    /\ writes' = [writes EXCEPT !.final_response = Append(@, "output")]
    /\ visited' = Append(visited, "output")
    /\ pc' = "END"
    /\ UNCHANGED <<outcome, prompt, raised, result, error_logs, turns>>
    /\ UNCHANGED <<sessionVars, functionVars>>

output_node ==
    /\ pc = "output"
    /\ visited' = Append(visited, "output")
    /\ pc' = NextNode("output", state)
    /\ UNCHANGED <<state, writes, outcome, prompt, raised, result, error_logs, turns>>
    /\ UNCHANGED <<sessionVars, functionVars>>

\* the second half of run_customer_support_system: app.invoke returned
ReturnResult ==
    /\ pc = "END"
    /\ result' = [returned |-> TRUE, value |-> state.final_response]
    /\ pc' = "idle"
    /\ UNCHANGED <<state, visited, writes, outcome, prompt, raised, error_logs, turns>>
    /\ UNCHANGED <<sessionVars, functionVars>>

\* the router node replaced by one that raises (the patch of
\* test_error_handling_in_workflow): app.invoke raises
router_agent_raises ==
    /\ pc = "router"
    /\ pc' = "raised"
    /\ raised' = "router"
    /\ UNCHANGED <<state, visited, writes, outcome, prompt, result, error_logs, turns>>
    /\ UNCHANGED <<sessionVars, functionVars>>

\* an except branch that returns the apology without logging the error
CatchException_unlogged ==
    /\ pc = "raised"
    /\ result' = [returned |-> TRUE, value |-> Apology]
    /\ pc' = "idle"
    /\ UNCHANGED <<state, visited, writes, outcome, prompt, raised, error_logs, turns>>
    /\ UNCHANGED <<sessionVars, functionVars>>

\* the except branch of run_customer_support_system
CatchException ==
    /\ pc = "raised"
    /\ error_logs' = error_logs + 1
    /\ result' = [returned |-> TRUE, value |-> Apology]
    /\ pc' = "idle"
    /\ UNCHANGED <<state, visited, writes, outcome, prompt, raised, turns>>
    /\ UNCHANGED <<sessionVars, functionVars>>

\* a reset that clears the memory of the instance as well
reset_customer_context_and_memory ==
    /\ pc = "idle"
    /\ \E a \in Agents :
           /\ current_customer' = [current_customer EXCEPT ![a] = NoCustomer]
           /\ identification_attempts' = [identification_attempts EXCEPT ![a] = 0]
           /\ memory' = [memory EXCEPT ![a] = <<>>]
    /\ UNCHANGED <<engineVars, resolutions, functionVars>>

\* BaseSpecializedAgent.reset_customer_context of one instance, between turns
reset_customer_context ==
    /\ pc = "idle"
    /\ \E a \in Agents :
           /\ current_customer' = [current_customer EXCEPT ![a] = NoCustomer]
           /\ identification_attempts' = [identification_attempts EXCEPT ![a] = 0]
    /\ UNCHANGED <<engineVars, memory, resolutions, functionVars>>

NotYet == "not yet"

EngineInit ==
    /\ pc = "idle"
    /\ state = NoState
    /\ visited = <<>>
    /\ writes = NoWrites
    /\ outcome = "none"
    /\ prompt = NoPrompt
    /\ raised = ""
    /\ result = NoResult
    /\ error_logs = 0
    /\ turns = 0

\* the three instances as constructed (BaseSpecializedAgent.__init__)
SessionInit ==
    /\ current_customer = [a \in Agents |-> NoCustomer]
    /\ identification_attempts = [a \in Agents |-> 0]
    /\ memory = [a \in Agents |-> <<>>]
    /\ resolutions = [a \in Agents |-> <<>>]

\* no function has been given an input of its own
RouterIdle     == rText = "" /\ rOut = NotYet
ResolverIdle   == uQuery = "" /\ uResult = <<>>
NameIdle       == nName = "" /\ nResult = <<>>
SupervisorIdle == sIn = <<>> /\ sEval = <<>> /\ sImproved = <<>>
LoaderIdle     == dStore = <<>> /\ dLoaded = <<>>

Init ==
    /\ EngineInit
    /\ SessionInit
    /\ RouterIdle
    /\ ResolverIdle
    /\ NameIdle
    /\ SupervisorIdle
    /\ LoaderIdle

TurnStep ==
    \/ input_node
    \/ router_agent
    \/ billing_agent
    \/ technical_agent
    \/ general_agent
    \/ supervisor_agent
    \/ output_node
    \/ ReturnResult

Next ==
    \/ StartTurn
    \/ TurnStep
    \/ reset_customer_context

\* the program as it runs
Spec == Init /\ [][Next]_vars

\* a started turn runs on: the graph is invoked synchronously
FairSpec == Spec /\ WF_vars(TurnStep)

\* a turn of the conversation with the billing specialist
StartSessionTurn == StartTurnWith(SessionTexts)

SessionNext ==
    \/ StartSessionTurn
    \/ TurnStep
    \/ reset_customer_context

\* the program in a conversation in which two customers are named to one
\* specialist
SessionSpec == Init /\ [][SessionNext]_vars

StartReviewTurn == StartTurnWith(ReviewTexts)

ReviewNext ==
    \/ StartReviewTurn
    \/ TurnStep
    \/ reset_customer_context

\* the program in a conversation in which the supervisor reviews replies to
\* the three types of query
ReviewSpec == Init /\ [][ReviewNext]_vars

\* the supervisor node with an evaluate_response that raises (the patch of
\* test_supervisor_agent_exception_handling): the raise leaves the try
\* block at line 105
supervisor_agent_evaluation_propagates ==
    /\ pc = "supervisor"
    /\ Len(state.messages) >= 2
    /\ pc' = "raised"
    /\ raised' = "supervisor"
    /\ UNCHANGED <<state, visited, writes, outcome, prompt, result, error_logs, turns>>
    /\ UNCHANGED <<sessionVars, functionVars>>

\* the supervisor node with an evaluate_response that raises (the patch of
\* test_supervisor_agent_exception_handling): the except branch of
\* supervisor_agent (lines 125-129) and its return (line 131)
supervisor_agent_evaluation_raises ==
    /\ pc = "supervisor"
    /\ Len(state.messages) >= 2
    /\ state' = [state EXCEPT !.final_response = Last(state.messages).content]
    /\ writes' = [writes EXCEPT !.final_response = Append(@, "supervisor")]
    /\ visited' = Append(visited, "supervisor")
    /\ pc' = NextNode("supervisor", state')
    /\ UNCHANGED <<outcome, prompt, raised, result, error_logs, turns>>
    /\ UNCHANGED <<sessionVars, functionVars>>

SupervisorHarnessNext ==
    \/ Next
    \/ supervisor_agent_evaluation_raises

\* the program under the test harness, which can make evaluate_response
\* raise inside the supervisor node
SupervisorHarnessSpec == Init /\ [][SupervisorHarnessNext]_vars

HarnessNext ==
    \/ Next
    \/ router_agent_raises
    \/ CatchException

\* the program under the test harness, which can make the router node raise
HarnessSpec == Init /\ [][HarnessNext]_vars

\* run_customer_support_system is one synchronous call: a started turn runs
\* on, and an exception that left app.invoke reaches the except branch
FairHarnessSpec == HarnessSpec /\ WF_vars(TurnStep) /\ WF_vars(CatchException)

-----------------------------------------------------------------------------
(* RouterAgent.classify_query as a function of its input *)

\* pieces of text; a classifier input is a concatenation of at most MaxFrags
Fragments ==
    { "bill", "ing", "Refund", "COST", "bug", "Error", "SYSTEM",
      "not", "working", " ", "\t", "\n", "hello", "s" }

RouterInputs ==
    { Concat(fs) : fs \in UNION { [1..n -> Fragments] : n \in 0..MaxFrags } }

RouterInit ==
    /\ EngineInit
    /\ SessionInit
    /\ rText \in RouterInputs
    /\ rOut = NotYet
    /\ ResolverIdle
    /\ NameIdle
    /\ SupervisorIdle
    /\ LoaderIdle

ApplyClassify ==
    /\ rOut = NotYet
    /\ rOut' = classify_query(rText)
    /\ UNCHANGED <<engineVars, sessionVars, rText, resolverVars, nameVars, supervisorVars, loaderVars>>

RouterNext == ApplyClassify

RouterSpec == RouterInit /\ [][RouterNext]_vars

-----------------------------------------------------------------------------
(* UserIdentifier.extract_user_info_from_query as a function of its input *)

\* pieces of the texts of test_identification.py; a text is at most
\* MaxParts pieces with a space between them
Phrases ==
    { "My account is", "USER001234", "user005654", "User999999",
      "SARAH.WILSON@TechCorp.com", "test@example.com",
      "I'm John", "my name is Alice" }

\* the pieces ps with a space between them
Sentence(ps) ==
    Concat([i \in 1..(2 * Len(ps) - 1) |->
               IF i % 2 = 1 THEN ps[(i + 1) \div 2] ELSE " "])

\* the queries test_identification.py expects to identify a customer
IdentifyingQueries ==
    { "My account is USER001234 and I have a billing issue",
      "Hi, I'm John Doe and I need help with my payment",
      "My email is sarah.wilson@techcorp.com and the system is slow",
      "Account ID USER005654 - payment failed" }

\* texts with USER and more than six digits
LongIdTexts == { "USER0012345", "it is user00565499 I think" }

ResolverInputs ==
    { Sentence(ps) : ps \in UNION { [1..n -> Phrases] : n \in 1..MaxParts } }
    \cup IdentifyingQueries \cup LongIdTexts

ResolverInit ==
    /\ EngineInit
    /\ SessionInit
    /\ RouterIdle
    /\ uQuery \in ResolverInputs
    /\ uResult = <<>>
    /\ NameIdle
    /\ SupervisorIdle
    /\ LoaderIdle

ApplyResolve ==
    /\ uResult = <<>>
    /\ uResult' = <<extract_user_info_from_query(uQuery)>>
    /\ UNCHANGED <<engineVars, sessionVars, routerVars, uQuery, nameVars, supervisorVars, loaderVars>>

ResolverNext == ApplyResolve

ResolverSpec == ResolverInit /\ [][ResolverNext]_vars

-----------------------------------------------------------------------------
(* UserIdentifier._find_customer_by_name as a function of its input *)

\* words of names, of the directory and not; a name is at most MaxParts
\* words with a space between them
NameWords == { "John", "Smith", "sarah", "WILSON", "Doe", "Alice" }

NameInputs ==
    { Sentence(ws) : ws \in UNION { [1..n -> NameWords] : n \in 1..MaxParts } }

NameInit ==
    /\ EngineInit
    /\ SessionInit
    /\ RouterIdle
    /\ ResolverIdle
    /\ nName \in NameInputs
    /\ nResult = <<>>
    /\ SupervisorIdle
    /\ LoaderIdle

ApplyFindByName ==
    /\ nResult = <<>>
    /\ nResult' = <<find_customer_by_name(nName)>>
    /\ UNCHANGED <<engineVars, sessionVars, routerVars, resolverVars, nName, supervisorVars, loaderVars>>

NameNext == ApplyFindByName

NameSpec == NameInit /\ [][NameNext]_vars

-----------------------------------------------------------------------------
(* SupervisorAgent.evaluate_response and improve_response as functions of *)
(* their inputs                                                            *)

\* words of the queries of test_supervisor.py; a query is at most MaxWords
\* words with a space between them, or white space only
QueryWords == { "billing", "PROBLEM", "hours" }

\* queries of up to MaxWords words, a query of white space only and one
\* that speaks of an issue
SupervisorQueries ==
    { Sentence(ws) : ws \in UNION { [1..n -> QueryWords] : n \in 0..MaxWords } }
    \cup { " \t", "my ISSUE" }

\* responses of 0, 2, 49, 50 and more characters, with and without the
\* words of the tone check
SupervisorResponses ==
    { "",
      "OK",
      "Your account balance is fine; nothing is due now.",
      "Your account balance is fine; nothing is due now!!",
      "We are sorry for the trouble. Your refund for the billing issue is on its way to your account.",
      "Here's your billing information. Check your account dashboard.",
      "UNFORTUNATELY we cannot look into that problem today, please call us." }

\* the responses improve_response is called on: empty, brief and long
RepairedResponses ==
    { "",
      "OK",
      "Here's your billing information. Check your account dashboard." }

\* the issues of evaluate_response and one that is none of them
IssueTags == { TooBrief, NotAddress, NeedEmpathy, "Test issue" }

SupervisorIssues == UNION { [1..n -> IssueTags] : n \in 0..MaxIssues }

\* the calls: evaluate_response on a query, a response and a type;
\* improve_response on a response, a type and a list of issues, with or
\* without a statement of its try block raising
SupervisorCalls ==
    { [call |-> "evaluate", query |-> q, response |-> r, query_type |-> t,
       issues |-> <<>>, raises |-> FALSE] :
          q \in SupervisorQueries, r \in SupervisorResponses, t \in QueryTypes }
    \cup
    { [call |-> "improve", query |-> "Billing problem", response |-> r, query_type |-> t,
       issues |-> is, raises |-> x] :
          r \in RepairedResponses, t \in QueryTypes, is \in SupervisorIssues,
          x \in BOOLEAN }

SupervisorInit ==
    /\ EngineInit
    /\ SessionInit
    /\ RouterIdle
    /\ ResolverIdle
    /\ NameIdle
    /\ LoaderIdle
    /\ sIn \in SupervisorCalls
    /\ sEval = <<>>
    /\ sImproved = <<>>

ApplyEvaluate ==
    /\ sIn.call = "evaluate"
    /\ sEval = <<>>
    /\ sEval' = <<evaluate_response(sIn.query, sIn.response, sIn.query_type)>>
    /\ UNCHANGED <<engineVars, sessionVars, routerVars, resolverVars, nameVars, sIn, sImproved, loaderVars>>

ApplyImprove ==
    /\ sIn.call = "improve"
    /\ sImproved = <<>>
    /\ sImproved' =
           <<IF sIn.raises
             THEN improve_response_except(sIn.response)
             ELSE improve_response(sIn.query, sIn.response, sIn.query_type, sIn.issues)>>
    /\ UNCHANGED <<engineVars, sessionVars, routerVars, resolverVars, nameVars, sIn, sEval, loaderVars>>

SupervisorNext == ApplyEvaluate \/ ApplyImprove

SupervisorSpec == SupervisorInit /\ [][SupervisorNext]_vars

-----------------------------------------------------------------------------
(* CustomerDataLoader.load_data as a function of the backing store *)

\* the entries of a system status
StatusKeys == { "overall_status", "last_maintenance", "known_issues", "recent_updates" }

\* a system status as a data file holds it
file_system_status ==
    [overall_status   |-> "operational",
     last_maintenance |-> "2024-07-15",
     known_issues     |-> <<"Slow dashboard">>,
     recent_updates   |-> <<"New billing page">>]

\* the customers entry of a data file: missing, null, or a list of at most
\* MaxRecords records
CustomerEntries ==
    { [entry |-> e, value |-> <<>>] : e \in {"absent", "null"} }
    \cup
    { [entry |-> "list", value |-> rs] :
          rs \in UNION { [1..n -> {customers[i] : i \in 1..Len(customers)}] :
                            n \in 0..MaxRecords } }

\* the system_status entry of a data file: missing, or an object with some
\* of the entries of a system status
StatusEntries ==
    { [entry |-> "absent", value |-> no_system_status] }
    \cup
    { [entry |-> "object", value |-> [k \in K |-> file_system_status[k]]] :
          K \in SUBSET StatusKeys }

\* the states of the backing store: no file, a file that cannot be read, a
\* file that is not JSON, JSON that is an array, and a JSON object
BackingStores ==
    { [kind |-> k,
       customers     |-> [entry |-> "absent", value |-> <<>>],
       system_status |-> [entry |-> "absent", value |-> no_system_status]] :
          k \in {"missing", "unreadable", "unparsable", "array"} }
    \cup
    { [kind |-> "object", customers |-> c, system_status |-> s] :
          c \in CustomerEntries, s \in StatusEntries }

LoaderInit ==
    /\ EngineInit
    /\ SessionInit
    /\ RouterIdle
    /\ ResolverIdle
    /\ NameIdle
    /\ SupervisorIdle
    /\ dStore \in BackingStores
    /\ dLoaded = <<>>

ApplyLoad ==
    /\ dLoaded = <<>>
    /\ dLoaded' = <<load_data(dStore)>>
    /\ UNCHANGED <<engineVars, sessionVars, routerVars, resolverVars, nameVars,
                   supervisorVars, dStore>>

LoaderNext == ApplyLoad

LoaderSpec == LoaderInit /\ [][LoaderNext]_vars

-----------------------------------------------------------------------------
(* The properties of the turn engine *)

\* the five stages of a turn whose specialist is a
Stages(a) == <<"input", "router", a, "supervisor", "output">>

\* C1: every turn visits exactly five stages in the order input, router,
\* one specialist, supervisor, output: what a turn has visited is always
\* an initial part of that list, the stage that runs next is the next of
\* the list (none skipped, none twice, no second specialist), and a turn
\* that has finished has visited all five.
C1_FiveStagesInOrder ==
    \E a \in Agents :
        /\ Len(visited) <= 5
        /\ visited = SubSeq(Stages(a), 1, Len(visited))
        /\ (pc \notin {"idle", "END"}) => (Len(visited) < 5 /\ pc = Stages(a)[Len(visited) + 1])
        /\ (pc = "END" \/ result.returned) => visited = Stages(a)

\* a second turn has gone through the five stages with the general specialist
C1_Witness ==
    /\ turns = 2
    /\ result.returned
    /\ visited = Stages("general_agent")

\* C2: the specialist that runs is the one the classifier returns for the
\* user text; BILLING, TECHNICAL and GENERAL are paired with the billing,
\* technical and general specialist; after any of the three the supervisor
\* runs next.
C2_DispatchMatchesClassifier ==
    Len(visited) >= 3 =>
        /\ visited[3] = Classified(state.messages[1].content)
        /\ <<state.query_type, visited[3]>> \in
               { <<"BILLING", "billing_agent">>,
                 <<"TECHNICAL", "technical_agent">>,
                 <<"GENERAL", "general_agent">> }
        /\ Len(visited) = 3 => pc = "supervisor"
        /\ Len(visited) >= 4 => visited[4] = "supervisor"

\* the technical specialist has run for a TECHNICAL text and the supervisor after it
C2_Witness ==
    /\ Len(visited) = 4
    /\ visited[3] = "technical_agent"
    /\ state.query_type = "TECHNICAL"
    /\ visited[4] = "supervisor"

\* C3: a started turn always comes to its return, through the output
\* stage, with a non-empty string, whatever the user text, the backend's
\* reply or failure, and the turns and resets before it; no turn ends in
\* an exception.
C3_TurnReturnsNonEmpty ==
    /\ [](pc # "raised" /\ raised = "")
    /\ [](result.returned => (Len(result.value) > 0 /\ Len(visited) = 5 /\ visited[5] = "output"))
    /\ [](pc = "input" => <>(pc = "idle" /\ result.returned))

\* the last turn allowed returned after the backend had replied with the
\* empty text
C3_Witness ==
    /\ turns = MaxTurns
    /\ result.returned
    /\ outcome = "generated"
    /\ \E a \in Agents : memory[a] # <<>> /\ Last(memory[a]).response = ""

\* C4: when the router node raises, run_customer_support_system returns
\* exactly the apology string, having logged one error, and nothing
\* leaves it as an exception: the raise is always followed by that return.
C4_ClassifierFailureApology ==
    /\ []((raised = "router" /\ pc = "idle") =>
            (result = [returned |-> TRUE, value |-> Apology] /\ error_logs = 1))
    /\ [](pc = "raised" => <>(pc = "idle" /\ result.returned /\ raised = "router"))

\* a turn whose router raised has returned
C4_Witness ==
    /\ raised = "router"
    /\ pc = "idle"
    /\ result.returned
    /\ visited = <<"input">>

\* C5: when generate_response of a specialist raises, the turn returns
\* exactly the apology string.
C5_SpecialistFailureApology ==
    (outcome = "raised" /\ result.returned) => result.value = Apology

\* C6: when the customer is identified and the backend fails, the
\* specialist answers with the fallback sentence of its category, nothing
\* is raised, and the turn goes on through the supervisor and the output
\* stage to its return.
C6_BackendFailureFallback ==
    outcome = "fallback" =>
        /\ Len(visited) >= 3
        /\ raised = "" /\ pc # "raised"
        /\ state.messages[2].role = "ai"
        /\ Len(visited) = 3 =>
               /\ state.messages[2].content =
                      CASE visited[3] = "billing_agent" ->
                             "I can help you with billing matters. Please let me know your specific concern and I'll assist you accordingly."
                        [] visited[3] = "technical_agent" ->
                             "I'm here to help with technical issues. Please describe the problem and I'll do my best to assist you."
                        [] visited[3] = "general_agent" ->
                             "Thank you for contacting us! I'm here to help with any questions you may have."
               /\ pc = "supervisor"
        /\ Len(visited) = 4 => (visited[4] = "supervisor" /\ pc = "output")
        /\ Len(visited) = 5 => (visited[5] = "output" /\ pc \in {"END", "idle"})
        /\ pc = "idle" => (result.returned /\ Len(visited) = 5)

\* the technical specialist has just answered with its fallback sentence
C6_Witness ==
    /\ outcome = "fallback"
    /\ visited = <<"input", "router", "technical_agent">>
    /\ current_customer["technical_agent"] # NoCustomer
    /\ Last(state.messages).content = fallback_response["technical_agent"]

\* C7: query_type (and next_agent) are empty until the router has run and
\* are written once, by the router only; final_response is empty until the
\* supervisor has run and is written once, by the supervisor only.
C7_FieldsWrittenOnceByOwner ==
    LET ran(node) == \E i \in 1..Len(visited) : visited[i] = node
    IN  /\ ~ran("router") =>
               (state.query_type = "" /\ state.next_agent = "" /\ writes.query_type = <<>>
                /\ writes.next_agent = <<>>)
        /\ ran("router") =>
               (writes.query_type = <<"router">> /\ writes.next_agent = <<"router">>
                /\ state.query_type \in {"BILLING", "TECHNICAL", "GENERAL"})
        /\ ~ran("supervisor") => (state.final_response = "" /\ writes.final_response = <<>>)
        /\ ran("supervisor") => writes.final_response = <<"supervisor">>

\* all five stages have run and both fields are set
C7_Witness ==
    /\ pc = "END"
    /\ writes.query_type = <<"router">>
    /\ writes.final_response = <<"supervisor">>
    /\ state.query_type = "BILLING"
    /\ state.final_response # ""

\* C8 as stated: within a turn every step keeps the messages it found, as
\* they were, and may only add after them.
C8_AppendOnly ==
    [][pc # "idle" =>
          /\ Len(state'.messages) >= Len(state.messages)
          /\ \A i \in 1..Len(state.messages) : state'.messages[i] = state.messages[i]]_vars

\* C8, amended: within a turn no step removes a message and the first
\* message stays the user's query; the only message ever changed is the
\* last one, the specialist's reply, which the supervisor replaces with
\* the improved text that is also the final response.
C8_AppendOrSupervisorRewrite ==
    [][pc # "idle" =>
          /\ Len(state'.messages) >= Len(state.messages)
          /\ state'.messages[1] = state.messages[1]
          /\ state.messages[1].role = "human"
          /\ \A i \in 1..Len(state.messages) :
                 state'.messages[i] # state.messages[i] =>
                     /\ pc = "supervisor"
                     /\ i = Len(state.messages)
                     /\ i >= 2
                     /\ Len(state'.messages) = Len(state.messages)
                     /\ state'.messages[i] = AI(state'.final_response)]_vars

\* the supervisor has put an improved text in place of the specialist's reply
C8_Witness ==
    /\ Len(visited) = 4
    /\ Len(state.messages) = 2
    /\ state.messages[1].role = "human"
    /\ state.messages[2] = AI(state.final_response)
    /\ state.final_response \notin RawResponses

-----------------------------------------------------------------------------
(* The properties of classify_query *)

\* C9: a text that contains a BILLING keyword and a TECHNICAL keyword,
\* whatever its case, is classified BILLING.
C9_BillingPrecedence ==
    LET has(k) == Contains(Lower(rText), k)
        billing   == \E k \in {"billing", "payment", "charge", "invoice",
                               "refund", "money", "cost", "price"} : has(k)
        technical == \E k \in {"bug", "error", "technical", "feature",
                               "system", "not working", "broken"} : has(k)
    IN  (rOut # NotYet /\ billing /\ technical) => agent_to_type[rOut] = "BILLING"

\* a text with "Refund" and "SYSTEM" in it has been classified
C9_Witness ==
    /\ rOut = "billing_agent"
    /\ \E i \in 1..Len(rText) : OccursAt(rText, "Refund", i)
    /\ \E i \in 1..Len(rText) : OccursAt(rText, "SYSTEM", i)

\* C10: the empty text, a text of white space only, and any text that
\* contains no BILLING and no TECHNICAL keyword is classified GENERAL.
C10_GeneralOtherwise ==
    LET has(k) == Contains(Lower(rText), k)
        billing   == \E k \in {"billing", "payment", "charge", "invoice",
                               "refund", "money", "cost", "price"} : has(k)
        technical == \E k \in {"bug", "error", "technical", "feature",
                               "system", "not working", "broken"} : has(k)
        blank     == \A i \in 1..Len(rText) : SubSeq(rText, i, i) \in {" ", "\t", "\n"}
    IN  (rOut # NotYet /\ (blank \/ (~billing /\ ~technical))) => agent_to_type[rOut] = "GENERAL"

\* a text of white space only has been classified
C10_Witness ==
    /\ rOut = "general_agent"
    /\ rText = " \t\n"

-----------------------------------------------------------------------------
(* The properties of the specialists' sessions *)

\* the four messages of request_user_identification
IdentityRequests == {NotFoundMessage, FirstRequest, SecondRequest, ThirdRequest}

C13_NotFoundPrecedence ==
    [][(pc \in Agents) =>
          LET query    == Last(state.messages).content
              notfound == /\ current_customer[pc] = NoCustomer
                          /\ Resolved(query) = NoCustomer
                          /\ is_identification_attempt(query)
                          /\ outcome' # "raised"
              reply    == "I couldn't find your account with the information provided. Please provide your account ID (e.g., USER123456) or email address so I can assist you better."
          IN  notfound => (outcome' = "identify" /\ Last(state'.messages).content = reply)]_vars

\* the general specialist has answered an identification attempt that
\* resolved to none, as its third request in a row
C13_Witness ==
    /\ outcome = "identify"
    /\ visited = <<"input", "router", "general_agent">>
    /\ identification_attempts["general_agent"] = 3
    /\ is_identification_attempt(state.messages[1].content)
    /\ Last(state.messages).content = NotFoundMessage

\* C14: a call of a specialist that replies with an identity request or
\* with a generated reply appends exactly one entry to the memory of that
\* specialist, holding the query and the reply of the call.
C14_EveryReplyLogged ==
    [][(pc \in Agents /\ outcome' \in {"identify", "generated"}) =>
          /\ Len(memory'[pc]) = Len(memory[pc]) + 1
          /\ SubSeq(memory'[pc], 1, Len(memory[pc])) = memory[pc]
          /\ Last(memory'[pc]).query = Last(state.messages).content
          /\ Last(memory'[pc]).response = Last(state'.messages).content]_vars

\* C15: no step ever removes or changes an entry of a specialist's memory;
\* a reset of a specialist, the only thing that happens between turns,
\* sets its current_customer to none and its identification_attempts to 0
\* and leaves every memory as it is.
C15_ResetKeepsLog ==
    [][/\ \A a \in Agents :
              /\ Len(memory'[a]) >= Len(memory[a])
              /\ SubSeq(memory'[a], 1, Len(memory[a])) = memory[a]
       /\ (pc = "idle" /\ pc' = "idle") =>
              /\ memory' = memory
              /\ \E a \in Agents :
                     /\ current_customer'[a] = NoCustomer
                     /\ identification_attempts'[a] = 0
                     /\ \A b \in Agents \ {a} :
                            /\ current_customer'[b] = current_customer[b]
                            /\ identification_attempts'[b] = identification_attempts[b]]_vars

\* the billing specialist has been reset after a turn in which it had a
\* customer and logged a reply
C15_Witness ==
    /\ pc = "idle"
    /\ result.returned
    /\ prompt.agent = "billing_agent"
    /\ memory["billing_agent"] # <<>>
    /\ current_customer["billing_agent"] = NoCustomer
    /\ identification_attempts["billing_agent"] = 0


C17_SessionsNotShared ==
    [][LET same(b) == /\ current_customer'[b] = current_customer[b]
                      /\ identification_attempts'[b] = identification_attempts[b]
                      /\ memory'[b] = memory[b]
       IN  /\ (pc \in Agents) => \A b \in Agents \ {pc} : same(b)
           /\ (pc = "idle" /\ pc' = "idle") =>
                  \E a \in Agents : \A b \in Agents \ {a} : same(b)
           /\ (pc \notin Agents /\ ~(pc = "idle" /\ pc' = "idle")) =>
                  \A b \in Agents : same(b)]_vars

\* the billing specialist has identified its customer and logged a reply,
\* the technical specialist has asked once for an identity, and the general
\* specialist has not been called: three different sessions
C17_Witness ==
    /\ current_customer["billing_agent"] # NoCustomer
    /\ memory["billing_agent"] # <<>>
    /\ identification_attempts["billing_agent"] = 0
    /\ current_customer["technical_agent"] = NoCustomer
    /\ memory["technical_agent"] = <<>>
    /\ identification_attempts["technical_agent"] = 1
    /\ current_customer["general_agent"] = NoCustomer
    /\ memory["general_agent"] = <<>>
    /\ identification_attempts["general_agent"] = 0


-----------------------------------------------------------------------------
(* The properties of the identification of a customer from a text *)

\* C18: extract_user_info_from_query tries the account id, then the e-mail
\* address, then the name phrase.  It returns the record of the account id
\* of the text when the directory has one, whatever the rest of the text;
\* else the record of the e-mail address of the text when a record has it;
\* else the record the name of the text finds; and no customer when none of
\* the three finds a record (a strategy that extracts nothing, or whose
\* value is not in the directory, passes to the next).
C18_StrategiesInOrder ==
    uResult # <<>> =>
        LET account_id == extract_account_id(uQuery)
            email      == extract_email(uQuery)
            name       == extract_name_patterns(uQuery)
            by_id      == FindIf(account_id, get_customer_by_id(account_id))
            by_email   == FindIf(email, find_customer_by_email(email))
            by_name    == FindIf(name, find_customer_by_name(name))
        IN  /\ by_id # NoCustomer => uResult[1] = by_id
            /\ (by_id = NoCustomer /\ by_email # NoCustomer) => uResult[1] = by_email
            /\ (by_id = NoCustomer /\ by_email = NoCustomer /\ by_name # NoCustomer)
                   => uResult[1] = by_name
            /\ (by_id = NoCustomer /\ by_email = NoCustomer /\ by_name = NoCustomer)
                   => uResult[1] = NoCustomer

\* the account id and the e-mail address of the text are in no record and
\* the name finds John Smith: both pass to the next strategy
C18_Witness ==
    /\ uQuery = "User999999 test@example.com I'm John"
    /\ extract_account_id(uQuery) = "USER999999"
    /\ extract_email(uQuery) = "test@example.com"
    /\ uResult = <<customers[1]>>


\* C19: for a text "My account is <token> ..." whose token is USER and six
\* digits in any letter case, extract_user_info_from_query returns the
\* record whose id is the token in upper case when the directory has it;
\* when the directory has no such record and neither the e-mail address nor
\* the name of the text finds one, it returns no customer.
C19_MyAccountIsToken ==
    (/\ uResult # <<>>
     /\ OccursAt(uQuery, "My account is ", 1)
     /\ UserIdAt(uQuery, 15)
     /\ (Len(uQuery) = 24 \/ CharAt(uQuery, 25) = " ")) =>
        LET id       == Upper(SubSeq(uQuery, 15, 24))
            present  == \E i \in 1..Len(customers) : customers[i].id = id
            email    == extract_email(uQuery)
            name     == extract_name_patterns(uQuery)
            by_email == FindIf(email, find_customer_by_email(email))
            by_name  == FindIf(name, find_customer_by_name(name))
        IN  /\ present => (uResult[1] # NoCustomer /\ uResult[1].id = id)
            /\ (~present /\ by_email = NoCustomer /\ by_name = NoCustomer)
                   => uResult[1] = NoCustomer

\* the token is written in lower case and the rest of the text carries an
\* e-mail address of no record: Sarah Wilson's record is returned
C19_Witness ==
    /\ uQuery = "My account is user005654 test@example.com"
    /\ uResult # <<>>
    /\ uResult[1].id = "USER005654"
    /\ uResult[1].name = "Sarah Wilson"


\* C20: the e-mail address of a text is matched without regard to letter
\* case, in the local part and in the domain.  When the account id of the
\* text finds no record (C18) and the e-mail address of the text, put in
\* lower case, is the e-mail address of a record put in lower case,
\* extract_user_info_from_query returns that record.
C20_EmailCaseInsensitive ==
    uResult # <<>> =>
        LET account_id == extract_account_id(uQuery)
            email      == extract_email(uQuery)
        IN  \A i \in 1..Len(customers) :
                (/\ FindIf(account_id, get_customer_by_id(account_id)) = NoCustomer
                 /\ email # ""
                 /\ Lower(email) = Lower(customers[i].email))
                    => uResult[1] = customers[i]

\* the address of the text is Sarah Wilson's with other letter case in the
\* local part and in the domain, after an account id of no record
C20_Witness ==
    /\ uQuery = "User999999 SARAH.WILSON@TechCorp.com"
    /\ extract_email(uQuery) = "SARAH.WILSON@TechCorp.com"
    /\ extract_email(uQuery) # customers[2].email
    /\ uResult = <<customers[2]>>


\* C21: a name is looked up by exact full name before by shared word.  When
\* a record of the directory has the name looked up as its full name,
\* letter case aside, _find_customer_by_name returns that record.
C21_ExactNameFirst ==
    nResult # <<>> =>
        \A i \in 1..Len(customers) :
            Lower(customers[i].name) = Lower(nName) => nResult[1] = customers[i]


-----------------------------------------------------------------------------
(* The properties of the supervisor's evaluation and repair *)

\* C22: an evaluation needs improvement exactly when it lists an issue, and
\* its score is 100 less 20 for each issue and never below 0: 100 for no
\* issue, 80 for one, 60 for two, 40 for three.  No issue is listed twice.
C22_ScoreFromIssues ==
    sEval # <<>> =>
        LET evaluation == sEval[1]
            n          == Cardinality({evaluation.issues[k] : k \in 1..Len(evaluation.issues)})
        IN  /\ evaluation.needs_improvement = (evaluation.issues # <<>>)
            /\ n = Len(evaluation.issues)
            /\ evaluation.score = Max({0, 100 - 20 * n})
            /\ evaluation.score = CASE n = 0 -> 100 [] n = 1 -> 80 [] n = 2 -> 60
                                    [] n = 3 -> 40 [] OTHER -> evaluation.score

\* "OK" to a billing query of two words, none of them in the response:
\* three issues and the score 40
C22_Witness ==
    /\ sIn.call = "evaluate"
    /\ sIn.response = "OK"
    /\ sIn.query = "billing PROBLEM"
    /\ sEval # <<>>
    /\ sEval[1].needs_improvement
    /\ Len(sEval[1].issues) = 3
    /\ sEval[1].score = 40


\* C23: evaluate_response lists "Response too brief" exactly when the
\* response has fewer than 50 characters, for every query and type: a
\* response of 49 characters is too brief, one of 50 is not, and "OK" is.
C23_BriefBelowFifty ==
    sEval # <<>> =>
        /\ InList(TooBrief, sEval[1].issues) = (Len(sIn.response) < 50)
        /\ sIn.response = "OK" =>
               (sEval[1].needs_improvement /\ InList(TooBrief, sEval[1].issues))

\* "OK" to a query about hours of the general type: too brief
C23_Witness ==
    /\ sIn.call = "evaluate"
    /\ sIn.response = "OK"
    /\ sIn.query = "hours"
    /\ sIn.query_type = "GENERAL"
    /\ sEval # <<>>
    /\ sEval[1].needs_improvement
    /\ InList(TooBrief, sEval[1].issues)


\* C24: evaluate_response lists "May need more empathetic tone" exactly
\* when the response, in lower case, has none of "sorry", "apologize" and
\* "unfortunately" in it and the type is BILLING or the query, in lower
\* case, has "problem" or "issue" in it; the length of the response and
\* the words of the query it addresses do not count.
C24_ToneRule ==
    sEval # <<>> =>
        LET has(text, word) == \E i \in 1..Len(text) : OccursAtIgnoreCase(text, word, i)
            empathetic == \/ has(sIn.response, "sorry")
                          \/ has(sIn.response, "apologize")
                          \/ has(sIn.response, "unfortunately")
            concerned  == \/ sIn.query_type = "BILLING"
                          \/ has(sIn.query, "problem")
                          \/ has(sIn.query, "issue")
        IN  InList(NeedEmpathy, sEval[1].issues) = (~empathetic /\ concerned)

\* a long response without a word of empathy that names the one word of a
\* technical query about a PROBLEM: the tone is the only issue
C24_Witness ==
    /\ sIn.call = "evaluate"
    /\ sIn.query = "PROBLEM billing"
    /\ sIn.query_type = "TECHNICAL"
    /\ sIn.response = "Here's your billing information. Check your account dashboard."
    /\ sEval = <<[needs_improvement |-> TRUE, issues |-> <<NeedEmpathy>>, score |-> 80]>>


\* C25: evaluate_response lists "May not fully address query" exactly when
\* the words of the lower-cased query (split at white space, a repeated
\* word counted each time) that occur in the lower-cased response are fewer
\* than 0.30 times the words of the query; a query without a word never
\* has the issue.
C25_CoverageRule ==
    sEval # <<>> =>
        LET tokens  == Split(Lower(sIn.query))
            covered == Cardinality({k \in 1..Len(tokens) :
                                       Contains(Lower(sIn.response), tokens[k])})
        IN  /\ InList(NotAddress, sEval[1].issues) = (10 * covered < 3 * Len(tokens))
            /\ tokens = <<>> => ~InList(NotAddress, sEval[1].issues)

\* one word of four is in the response, a quarter of the query: not
\* addressed, though a word is covered
C25_Witness ==
    /\ sIn.call = "evaluate"
    /\ sIn.query = "hours billing hours hours"
    /\ sIn.response = "Here's your billing information. Check your account dashboard."
    /\ sEval # <<>>
    /\ InList(NotAddress, sEval[1].issues)


\* C26: improve_response repairs by adding text around the response, for
\* brevity, then coverage, then tone.  Its result is the tone prefix, the
\* coverage prefix, the response as it came, the brevity suffix and the
\* coverage suffix, each present exactly when its issue is in the list: the
\* response is a contiguous part of the result, the result is longer than
\* the response when one of the three issues is in the list (with the offer
\* of additional assistance for "Response too brief"), and it is the
\* response itself when none of them is.
C26_RepairsAreAdditive ==
    (sImproved # <<>> /\ ~sIn.raises) =>
        LET brief   == InList(TooBrief, sIn.issues)
            address == InList(NotAddress, sIn.issues)
            tone    == InList(NeedEmpathy, sIn.issues)
            tone_prefix ==
                IF ~tone THEN ""
                ELSE IF sIn.query_type = "BILLING"
                     THEN "I understand billing concerns can be frustrating. "
                ELSE IF sIn.query_type = "TECHNICAL"
                     THEN "I apologize for any technical difficulties you're experiencing. "
                ELSE "I appreciate you reaching out to us. "
            address_prefix == IF address THEN "Thank you for your inquiry. " ELSE ""
            brief_suffix ==
                IF brief
                THEN "\n\nI'm here to provide additional assistance if you need more detailed information."
                ELSE ""
            address_suffix ==
                IF address
                THEN "\n\nPlease let me know if this doesn't fully address your question or if you need clarification on any point."
                ELSE ""
            improved == sImproved[1]
        IN  /\ improved = tone_prefix \o address_prefix \o sIn.response
                              \o brief_suffix \o address_suffix
            /\ OccursAt(improved, sIn.response, Len(tone_prefix) + Len(address_prefix) + 1)
            /\ (brief \/ address \/ tone) => Len(improved) > Len(sIn.response)
            /\ brief => Contains(improved, "additional assistance")
            /\ ~(brief \/ address \/ tone) => improved = sIn.response

\* the three repairs at once on "OK" of the billing type
C26_Witness ==
    /\ sIn.call = "improve"
    /\ ~sIn.raises
    /\ sIn.response = "OK"
    /\ sIn.query_type = "BILLING"
    /\ sIn.issues = <<TooBrief, NotAddress, NeedEmpathy>>
    /\ sImproved # <<>>
    /\ OccursAt(sImproved[1], "I understand billing concerns can be frustrating. Thank you for your inquiry. OK\n\nI'm here", 1)


\* C27: improve_response reads its list of issues as a set.  For a query,
\* a response and a type, a list gives the result of the list that names
\* the same issues once each in one fixed order: the order of the entries
\* and their repetition do not count.
C27_IssuesAsSet ==
    (sImproved # <<>> /\ ~sIn.raises) =>
        LET named(tag) == IF InList(tag, sIn.issues) THEN <<tag>> ELSE <<>>
            once_each  == named("Test issue") \o named(NeedEmpathy)
                              \o named(NotAddress) \o named(TooBrief)
        IN  sImproved[1] =
                improve_response(sIn.query, sIn.response, sIn.query_type, once_each)

\* tone named before brevity and twice: the result of the list of the test
\* (brevity, tone)
C27_Witness ==
    /\ sIn.call = "improve"
    /\ ~sIn.raises
    /\ sIn.response = "OK"
    /\ sIn.query_type = "BILLING"
    /\ sIn.issues = <<NeedEmpathy, TooBrief, NeedEmpathy>>
    /\ sImproved = <<"I understand billing concerns can be frustrating. OK\n\nI'm here to provide additional assistance if you need more detailed information.">>


\* C28: when a statement of improve_response's try block raises (a list of
\* issues or a response of the wrong type), improve_response returns the
\* response it was given, unchanged, and a value always comes back to the
\* caller.
C28_FailureReturnsOriginal ==
    (sIn # <<>> /\ sIn.call = "improve") =>
        /\ Len(sImproved) <= 1
        /\ (sImproved # <<>> /\ sIn.raises) => sImproved[1] = sIn.response

\* the call that would repair "OK" for brevity raises and returns "OK"
C28_Witness ==
    /\ sIn.call = "improve"
    /\ sIn.raises
    /\ sIn.response = "OK"
    /\ sIn.issues = <<TooBrief>>
    /\ sImproved = <<"OK">>


-----------------------------------------------------------------------------
(* The properties of the supervisor stage of a turn *)

\* C29: when the reply the specialist left as the last message has fewer
\* than 50 characters, the supervisor stage rewrites it: the final response
\* it sets differs from that reply and has more than 10 characters, and the
\* last message of the turn carries the final response, not the reply.
C29_BriefReplyRewritten ==
    [][(pc = "supervisor" /\ Len(state.messages) >= 2
           /\ Len(Last(state.messages).content) < 50) =>
          /\ state'.final_response # Last(state.messages).content
          /\ Len(state'.final_response) > 10
          /\ Len(state'.final_response) > Len(Last(state.messages).content)
          /\ Last(state'.messages).content = state'.final_response
          /\ Len(state'.messages) = Len(state.messages)]_vars

\* a turn whose specialist got "OK" from the backend and logged it has
\* passed the supervisor: the final response and the last message are the
\* rewritten text
C29_Witness ==
    /\ pc = "output"
    /\ outcome = "generated"
    /\ Last(memory[visited[3]]).response = "OK"
    /\ state.final_response # "OK"
    /\ Len(state.final_response) > 10
    /\ Last(state.messages).content = state.final_response
    /\ Contains(state.final_response, "OK\n\nI'm here to provide additional assistance")


\* C30: when evaluate_response raises inside the supervisor stage, the
\* stage does not pass the exception on: it sets the final response to the
\* text of the last message, the specialist's reply as it came, leaves the
\* messages as they are and hands over to the output stage, so that the
\* turn returns that text.  A supervisor step either does this or
\* follows the evaluation.
C30_EvaluationFailureKeepsReply ==
    [][/\ (pc = "supervisor" /\ Len(state.messages) >= 2) =>
              /\ pc' = "output"
              /\ raised' = "" /\ error_logs' = 0
              /\ \/ state' = [state EXCEPT !.final_response = Last(state.messages).content]
                 \/ state' = supervised(state,
                                 Evaluated(state.messages[1].content,
                                           Last(state.messages).content, state.query_type))
       /\ (pc = "END") =>
              /\ result'.returned
              /\ result'.value = state.final_response]_vars

\* the backend's "OK", which an evaluation would have rewritten, is what the
\* finished turn returned: evaluate_response raised
C30_Witness ==
    /\ pc = "idle"
    /\ result = [returned |-> TRUE, value |-> "OK"]
    /\ outcome = "generated"
    /\ Len(visited) = 5
    /\ visited[4] = "supervisor"
    /\ visited[5] = "output"
    /\ state.final_response = "OK"
    /\ Last(state.messages).content = "OK"
    /\ raised = ""

-----------------------------------------------------------------------------
(* The end-to-end scenarios and the directory *)

\* C31: the first turn of the program, on "I have a billing issue with my
\* account", is classified BILLING and, when the billing specialist asks
\* for the identity, returns the message of the first attempt, "Hello! To
\* provide you with personalized assistance ...".
C31_BillingScenarioFirstRequest ==
    (/\ pc = "idle"
     /\ result.returned
     /\ turns = 1
     /\ state.messages # <<>>
     /\ state.messages[1].content = "I have a billing issue with my account") =>
        /\ state.query_type = "BILLING"
        /\ outcome = "identify" => result.value = FirstRequest

\* C32: after load_data the directory holds at least one record and a
\* system status with its overall status, last maintenance, known issues
\* and recent updates, whatever the backing store: no file, a file that
\* cannot be read or parsed, or JSON that lacks the customers or the
\* system_status entry.
C32_LoadNeverEmpty ==
    dLoaded # <<>> =>
        /\ dLoaded[1].customers # <<>>
        /\ StatusKeys \subseteq DOMAIN dLoaded[1].system_status

-----------------------------------------------------------------------------
(* The identity resolver on the texts of the scenarios *)

\* C33: a text whose only identity signal is USER followed by seven or
\* more digits (no e-mail address, no name phrase, no USER token of six
\* digits) does not resolve to the record whose id is USER and the first
\* six of those digits.
C33_ExactlySixDigits ==
    uResult # <<>> =>
        LET long(i) == /\ UserIdAt(uQuery, i)
                       /\ i + 10 <= Len(uQuery)
                       /\ IsDigit(CharAt(uQuery, i + 10))
            only    == /\ \A j \in 1..Len(uQuery) : UserIdAt(uQuery, j) => long(j)
                       /\ extract_email(uQuery) = ""
                       /\ extract_name_patterns(uQuery) = ""
        IN  \A i \in 1..Len(uQuery) :
                (long(i) /\ only) => uResult[1].id # Upper(SubSeq(uQuery, i, i + 9))

\* C34: "Hi, I'm John Doe and I need help with my payment", a name phrase
\* followed by further words and no account id or e-mail address, resolves
\* to the record of the directory named John Doe.
C34_NamePhraseThenWords ==
    (uResult # <<>> /\ uQuery = "Hi, I'm John Doe and I need help with my payment") =>
        uResult[1].name = "John Doe"

-----------------------------------------------------------------------------
(* The messages, the sessions and the repairs over whole turns *)

\* C35: in a turn the messages are the user's text and one more for each
\* specialist node that has run, which is at most one: the specialist node
\* appends exactly one reply, the apology when generate_response raised,
\* and the supervisor node leaves the number of messages as it is.  When
\* a turn returns without having reached the except branch of
\* run_customer_support_system, there are exactly two messages and the
\* final response, which is returned, is the text of the last one.
C35_TwoMessagesAtExit ==
    LET replies    == Cardinality({k \in 1..Len(visited) : visited[k] \in Agents})
        supervised_already == \E k \in 1..Len(visited) : visited[k] = "supervisor"
    IN  /\ replies <= 1
        /\ state.messages # <<>> => Len(state.messages) = 1 + replies
        /\ (outcome = "raised" /\ ~supervised_already) =>
               Last(state.messages) = AI(Apology)
        /\ (pc = "idle" /\ result.returned /\ raised = "") =>
               /\ Len(state.messages) = 2
               /\ state.messages[1].role = "human"
               /\ state.final_response = Last(state.messages).content
               /\ result.value = state.final_response

\* a turn whose generate_response raised has returned: two messages, the
\* second one the apology as the supervisor left it
C35_Witness ==
    /\ pc = "idle"
    /\ result.returned
    /\ outcome = "raised"
    /\ Len(state.messages) = 2
    /\ state.final_response = Last(state.messages).content
    /\ Contains(state.final_response, Apology)

\* C36: a call of generate_response that ends in the fallback sentence
\* leaves identification_attempts and the memory of every specialist as
\* they were, and the customer of the session in place: the one the
\* session had, or the one the call itself identified before the backend
\* failed, who is the customer of the generation request; the other
\* sessions are untouched.  A call on a session that has its customer,
\* such as the next call after the failure, asks for no identification.
C36_FailureKeepsSession ==
    [][/\ \A a \in Agents :
              (pc = a /\ outcome' = "fallback") =>
                  /\ identification_attempts' = identification_attempts
                  /\ memory' = memory
                  /\ current_customer'[a] # NoCustomer
                  /\ current_customer'[a].id = prompt'.customer
                  /\ current_customer[a] # NoCustomer =>
                         current_customer'[a] = current_customer[a]
                  /\ \A b \in Agents \ {a} : current_customer'[b] = current_customer[b]
       /\ \A a \in Agents :
              (pc = a /\ current_customer[a] # NoCustomer) =>
                  /\ outcome' # "identify"
                  /\ identification_attempts' = identification_attempts]_vars

\* the second turn of a specialist generated a reply for the customer its
\* first turn identified from another text; the first turn logged nothing,
\* so its backend failed, and no identity request was made in between
C36_Witness ==
    \E a \in Agents :
        /\ pc = "idle"
        /\ result.returned
        /\ turns = 2
        /\ outcome = "generated"
        /\ prompt.agent = a
        /\ Len(memory[a]) = 1
        /\ Len(resolutions[a]) = 1
        /\ resolutions[a][1].query # prompt.query
        /\ resolutions[a][1].customer = prompt.customer
        /\ identification_attempts[a] = 0

\* C37: a specialist whose session has a customer keeps it in every call
\* of generate_response, whatever the text: the call does not identify
\* anew (nothing is added to the identifications of the instance), asks
\* for no identification, and a generation request it makes is for that
\* customer and the text as given, also when the text carries the account
\* id or the e-mail address of another customer.  Only a reset of the
\* specialist, between turns, takes the customer away.
C37_IdentitySticky ==
    [][/\ \A a \in Agents :
              (pc = a /\ current_customer[a] # NoCustomer) =>
                  /\ current_customer'[a] = current_customer[a]
                  /\ resolutions'[a] = resolutions[a]
                  /\ outcome' # "identify"
                  /\ outcome' \in {"generated", "fallback"} =>
                         prompt' = [agent    |-> a,
                                    customer |-> current_customer[a].id,
                                    query    |-> Last(state.messages).content]
       /\ \A a \in Agents :
              (current_customer[a] # NoCustomer /\ current_customer'[a] # current_customer[a]) =>
                  /\ pc = "idle"
                  /\ pc' = "idle"
                  /\ current_customer'[a] = NoCustomer]_vars

\* a reply was generated for the customer of the session on a text that
\* names another customer of the directory
C37_Witness ==
    /\ pc = "idle"
    /\ result.returned
    /\ outcome = "generated"
    /\ prompt.customer # ""
    /\ current_customer[prompt.agent].id = prompt.customer
    /\ Resolved(prompt.query) # NoCustomer
    /\ Resolved(prompt.query).id # prompt.customer

\* C38: identification_attempts of a specialist is the number of its calls
\* since its last reset that ended without a customer.  Such a call adds
\* one, also when its reply is the "could not find your account" message;
\* a call that ends with a customer, identified before or in this call,
\* leaves the count as it is, above 0 or not; no call changes the count of
\* another specialist.  The reply to a text that is no identification
\* attempt is chosen by the count after the call: the first request at 1,
\* the itemized one at 2, the escalation from 3 on.
C38_AttemptsCountUnresolved ==
    [][\A a \in Agents :
           (pc = a) =>
               LET reply == Last(state'.messages).content
                   n     == identification_attempts[a]
                   m     == identification_attempts'[a]
               IN  /\ outcome' = "identify" =>
                          /\ current_customer'[a] = NoCustomer
                          /\ m = n + 1
                          /\ reply \in {NotFoundMessage, FirstRequest, SecondRequest, ThirdRequest}
                          /\ reply # NotFoundMessage =>
                                 reply = IF m = 1 THEN FirstRequest
                                         ELSE IF m = 2 THEN SecondRequest
                                         ELSE ThirdRequest
                          /\ reply = NotFoundMessage <=>
                                 is_identification_attempt(Last(state.messages).content)
                   /\ outcome' \in {"generated", "fallback"} =>
                          /\ current_customer'[a] # NoCustomer
                          /\ m = n
                   /\ \A b \in Agents \ {a} :
                          identification_attempts'[b] = identification_attempts[b]]_vars

\* the third turn of a conversation identified the customer of a
\* specialist that had asked twice: the count is still 2
C38_Witness ==
    \E a \in Agents :
        /\ pc = "idle"
        /\ result.returned
        /\ turns = 3
        /\ outcome = "generated"
        /\ prompt.agent = a
        /\ Len(resolutions[a]) = 1
        /\ resolutions[a][1].query = prompt.query
        /\ identification_attempts[a] = 2

\* C39: the supervisor node evaluates the reply of the specialist once and
\* improves it at most once: the final response, which is also the last
\* message, is the reply itself when the evaluation asks for nothing and
\* one improve_response of it otherwise, and no message is added.  The
\* rewritten text is not evaluated again; if it were, for the same query
\* and type, the tone check of evaluate_response would report a reply
\* that had the tone issue again exactly when the type is BILLING or
\* GENERAL: only the TECHNICAL repair removes it.
C39_ToneRepairOnlyTechnical ==
    [][(pc = "supervisor" /\ Len(state.messages) >= 2) =>
           LET original_query == state.messages[1].content
               agent_response == Last(state.messages).content
               query_type     == state.query_type
               evaluation     == Evaluated(original_query, agent_response, query_type)
               final          == state'.final_response
           IN  /\ pc' = "output"
               /\ Len(state'.messages) = Len(state.messages)
               /\ Last(state'.messages).content = final
               /\ final = IF evaluation.needs_improvement
                          THEN Improved(original_query, agent_response,
                                        query_type, evaluation.issues)
                          ELSE agent_response
               /\ InList(NeedEmpathy, evaluation.issues) =>
                      (lacks_empathy(original_query, final, query_type)
                           <=> query_type \in {"BILLING", "GENERAL"})]_vars

\* a conversation in which the replies to a general, a technical and a
\* billing query have been given a tone prefix: the technical one
\* apologizes, the last one, for billing, does not
C39_Witness ==
    /\ pc = "output"
    /\ turns = 3
    /\ state.query_type = "BILLING"
    /\ OccursAt(state.final_response, "I understand billing concerns can be frustrating. ", 1)
    /\ lacks_empathy(state.messages[1].content, state.final_response, "BILLING")
    /\ identification_attempts["technical_agent"] = 1
    /\ identification_attempts["general_agent"] = 1

=============================================================================
